---- MODULE Spec2Model ----
(***************************************************************************)
(* SimpleGuitarTools: the TabGenerator phrase engine                       *)
(* (src/src/app/utils/TabGenerator.js).                                    *)
(*                                                                         *)
(* Notes are the strings of the source.  A JavaScript array is a TLA+      *)
(* sequence, so the array index k of the source is the sequence index      *)
(* k + 1; string numbers and frets keep the 0-based values of the source.  *)
(* Math.random() is a nondeterministic draw r / RandomGrain with           *)
(* r \in 0 .. RandomGrain - 1; Math.floor(Math.random() * n) is therefore  *)
(* (r * n) \div RandomGrain, which takes every value of 0 .. n - 1 as long *)
(* as n <= RandomGrain.                                                    *)
(***************************************************************************)
EXTENDS Integers, Sequences, FiniteSets, TLC

VARIABLES
    op,            \* the method of TabGenerator that was called
    in,            \* the arguments of the call
    pc,            \* position in the call: "start", "phrase", "progression", "done"
    out,           \* the value returned (NoValue until the call returns)
    phraseOpts,    \* opts of the generatePhrase call in progress
    noteSequence,  \* noteSequence of the generatePhrase call in progress
    tabNotes,      \* tabNotes of the generatePhrase call in progress
    noteIndex,     \* forEach index over noteSequence in generatePhrase
    index,         \* forEach index of generateProgressionPhrases
    phrases,       \* phrases of generateProgressionPhrases
    searches,      \* number of selectBestPosition calls made so far
    fretboard,     \* the React state of the GuitarFretboard component, once mounted
    calls          \* number of handler calls the component has served, where counted

vars == <<op, in, pc, out, phraseOpts, noteSequence, tabNotes, noteIndex, index, phrases,
          searches, fretboard, calls>>

-----------------------------------------------------------------------------
(* Bounds of the model                                                     *)

MaxFretArg == 14
RandomGrain == 12
MaxPhraseLength == 3
MaxProgression == 2
MaxTotalNotes == 8
MaxPositions == 3
MaxRange == 5
MaxCalls == 3

-----------------------------------------------------------------------------
(* Values                                                                  *)

allNotes == <<"A", "A#", "B", "C", "C#", "D", "D#", "E", "F", "F#", "G", "G#">>

CanonicalNotes == {allNotes[i] : i \in 1..Len(allNotes)}

\* the last fret findNotePositions and filterPositionsByRange look at
LastFret == 12

NoValue == [none |-> TRUE]
Null == [null |-> TRUE]

\* undefined, where a string could stand as well: the text it is printed as
Undefined == "undefined"

Min(a, b) == IF a <= b THEN a ELSE b
Max(a, b) == IF a >= b THEN a ELSE b
Abs(a) == IF a >= 0 THEN a ELSE -a

\* the arrays over S of at most n elements
RECURSIVE SeqsUpTo(_, _)
SeqsUpTo(S, n) ==
    IF n = 0 THEN {<<>>}
    ELSE LET shorter == SeqsUpTo(S, n - 1)
         IN  shorter \cup {Append(q, x) : q \in shorter, x \in S}

\* the outcomes of Math.random(), as numerators of r / RandomGrain
Random == 0..(RandomGrain - 1)

\* Math.floor(Math.random() * n) for the draw r
RandomIndex(r, n) == (r * n) \div RandomGrain

\* Array.prototype.indexOf on allNotes: 0-based, -1 when absent
indexOfNote == [n \in CanonicalNotes |-> (CHOOSE i \in 1..Len(allNotes) : allNotes[i] = n) - 1]

indexOf(note) == IF note \in CanonicalNotes THEN indexOfNote[note] ELSE -1

\* the % of JavaScript: the remainder has the sign of the dividend
remainder(a, n) == IF a >= 0 THEN a % n ELSE -((-a) % n)

\* Array.prototype.includes
includes(arr, x) == \E i \in 1..Len(arr) : arr[i] = x

-----------------------------------------------------------------------------
(* The pure methods                                                        *)

\* getNoteAt with the index clamped to the table instead of wrapped
getNoteAt_Clamp(baseNote, fret) ==
    LET baseIndex == indexOf(baseNote)
    IN  IF baseIndex < 0 THEN ""
        ELSE allNotes[Min(11, baseIndex + fret) + 1]

\* getNoteAt without the test of baseIndex: the index -1 of a note that is
\* not in the table is added to the fret like any other
getNoteAt_NoCheck(baseNote, fret) ==
    allNotes[((indexOf(baseNote) + fret) % 12) + 1]

getNoteAt(baseNote, fret) ==
    LET baseIndex == indexOf(baseNote)
    IN  IF baseIndex < 0 THEN ""
        ELSE allNotes[((baseIndex + fret) % 12) + 1]

\* the getNoteAt of the component (GuitarFretboard.js, lines 61-64): the
\* index is not tested, and an index outside the table reads undefined
fretboardGetNoteAt(base, fret) ==
    LET i == indexOf(base)
        k == remainder(i + fret, 12)
    IN  IF k \in 0..(Len(allNotes) - 1) THEN allNotes[k + 1] ELSE Undefined

\* The cells findNotePositions visits, in the order it visits them: string by
\* string (tuning.forEach), and on each string fret minFret up to maxFret.
ScanOrder(nStrings, minFret, maxFret) ==
    LET w == IF maxFret >= minFret THEN maxFret - minFret + 1 ELSE 0
    IN  [k \in 1..(nStrings * w) |->
            [string |-> (k - 1) \div w, fret |-> minFret + ((k - 1) % w)]]

\* findNotePositions with the loop test fret < maxFret
findNotePositions_SkipLast(note, tuning, minFret, maxFret) ==
    SelectSeq(ScanOrder(Len(tuning), minFret, maxFret - 1),
              LAMBDA pos : getNoteAt(tuning[pos.string + 1], pos.fret) = note)

findNotePositions(note, tuning, minFret, maxFret) ==
    SelectSeq(ScanOrder(Len(tuning), minFret, maxFret),
              LAMBDA pos : getNoteAt(tuning[pos.string + 1], pos.fret) = note)

\* filterPositionsByRange taking range frets either side of the centre
filterPositionsByRange_FullRange(positions, centerPosition, range) ==
    LET minFret == Max(0, centerPosition - range)
        maxFret == Min(LastFret, centerPosition + range)
    IN  SelectSeq(positions, LAMBDA pos : pos.fret >= minFret /\ pos.fret <= maxFret)

filterPositionsByRange(positions, centerPosition, range) ==
    LET minFret == Max(0, centerPosition - (range \div 2))
        maxFret == Min(LastFret, centerPosition + (range \div 2))
    IN  SelectSeq(positions, LAMBDA pos : pos.fret >= minFret /\ pos.fret <= maxFret)

\* scorePosition rewarding the open string instead of penalising it
scorePosition_OpenBonus(position, note, chordNotes, emphasizeChordTones, preferredPosition) ==
      (IF emphasizeChordTones /\ includes(chordNotes, note) THEN 10 ELSE 0)
    + Max(0, 5 - Abs(position.fret - preferredPosition))
    + (IF position.string >= 1 /\ position.string <= 4 THEN 3 ELSE 0)
    + (IF position.fret = 0 THEN 2 ELSE 0)
    + (IF position.fret >= 3 /\ position.fret <= 9 THEN 2 ELSE 0)

scorePosition(position, note, chordNotes, emphasizeChordTones, preferredPosition) ==
    LET s0 == 0
        s1 == IF emphasizeChordTones /\ includes(chordNotes, note) THEN s0 + 10 ELSE s0
        distanceFromPreferred == Abs(position.fret - preferredPosition)
        s2 == s1 + Max(0, 5 - distanceFromPreferred)
        s3 == IF position.string >= 1 /\ position.string <= 4 THEN s2 + 3 ELSE s2
        s4 == IF position.fret = 0 THEN s3 - 2 ELSE s3
        s5 == IF position.fret >= 3 /\ position.fret <= 9 THEN s4 + 2 ELSE s4
    IN  s5

\* Array.prototype.sort((a, b) => b.score - a.score): descending by score,
\* and stable, so equal scores keep the order of findNotePositions.
\* insertByScore puts x behind the elements of the sorted array that score
\* at least as much.
insertByScore(sorted, x) ==
    LET k == Cardinality({i \in 1..Len(sorted) : sorted[i].score >= x.score})
    IN  SubSeq(sorted, 1, k) \o <<x>> \o SubSeq(sorted, k + 1, Len(sorted))

RECURSIVE sortByScore(_)
sortByScore(s) ==
    IF Len(s) <= 1 THEN s
    ELSE insertByScore(sortByScore(SubSeq(s, 1, Len(s) - 1)), s[Len(s)])

\* Array.prototype.slice(0, end)
sliceFromStart(arr, end) == SubSeq(arr, 1, Min(end, Len(arr)))

\* selectBestPosition, lines 155-164: the scored positions, sorted, cut to
\* the first three
topPositions(filteredPositions, note, chordNotes, options) ==
    sliceFromStart(
        sortByScore([i \in 1..Len(filteredPositions) |->
            [string |-> filteredPositions[i].string,
             fret |-> filteredPositions[i].fret,
             score |-> scorePosition(filteredPositions[i], note, chordNotes,
                                     options.emphasizeChordTones,
                                     options.preferredPosition)]]),
        Min(3, Len(filteredPositions)))

\* selectBestPosition drawing from allPositions whatever the window holds
choicesAmong_IgnoreWindow(allPositions, filteredPositions, note, chordNotes, options) ==
    allPositions

\* selectBestPosition, lines 148-164: the array the result is drawn from;
\* allPositions when no position is in the window (empty when the note is
\* nowhere on the neck), else the top of the scored positions
choicesAmong(allPositions, filteredPositions, note, chordNotes, options) ==
    IF Len(filteredPositions) = 0
    THEN allPositions
    ELSE topPositions(filteredPositions, note, chordNotes, options)

\* selectBestPosition, lines 142-146
choicesWithin(allPositions, note, chordNotes, options) ==
    choicesAmong(allPositions,
                 filterPositionsByRange(allPositions, options.preferredPosition,
                                        options.positionRange),
                 note, chordNotes, options)

\* selectBestPosition searching a 24-fret neck
positionChoices_LongNeck(note, tuning, chordNotes, options) ==
    choicesWithin(findNotePositions(note, tuning, 0, 24), note, chordNotes, options)

\* selectBestPosition, lines 141-164, up to the draw
positionChoices(note, tuning, chordNotes, options) ==
    choicesWithin(findNotePositions(note, tuning, 0, 12), note, chordNotes, options)

\* selectBestPosition, lines 150, 151 and 165: null for no position, else
\* choices[Math.floor(Math.random() * choices.length)] for the draw r
drawPosition(choices, r) ==
    IF Len(choices) = 0 THEN Null
    ELSE choices[RandomIndex(r, Len(choices)) + 1]

\* r is the outcome of the one Math.random() call the method makes
selectBestPosition(note, tuning, chordNotes, options, r) ==
    drawPosition(positionChoices(note, tuning, chordNotes, options), r)

\* createArpeggiatedSequence with the loop test i <= length
createArpeggiatedSequence_OneMore(chordNotes, length) ==
    IF Len(chordNotes) = 0 THEN <<>>
    ELSE [i \in 1..(length + 1) |-> chordNotes[((i - 1) % Len(chordNotes)) + 1]]

\* createArpeggiatedSequence walking the chord from its last note down
createArpeggiatedSequence_Descending(chordNotes, length) ==
    IF Len(chordNotes) = 0 THEN <<>>
    ELSE [i \in 1..length |-> chordNotes[Len(chordNotes) - ((i - 1) % Len(chordNotes))]]

createArpeggiatedSequence(chordNotes, length) ==
    IF Len(chordNotes) = 0 THEN <<>>
    ELSE [i \in 1..length |-> chordNotes[((i - 1) % Len(chordNotes)) + 1]]

defaultOptions ==
    [phraseLength |-> 6, preferredPosition |-> 5,
     emphasizeChordTones |-> TRUE, positionRange |-> 4]

\* the object spread { ...a, ...b }
Spread(a, b) ==
    [k \in DOMAIN a \cup DOMAIN b |-> IF k \in DOMAIN b THEN b[k] ELSE a[k]]

\* generatePhrase, line 197
workingScale(chordNotes, scaleNotes) ==
    IF Len(scaleNotes) > 0 THEN scaleNotes ELSE chordNotes

\* the phrase generatePhrase returns
TabPhrase(chordName, notes) == [chordName |-> chordName, notes |-> notes]

\* the early return returning null instead of a phrase without notes
emptyPhrase_Null(chordName) == Null

\* generatePhrase, line 200
emptyPhrase(chordName) == TabPhrase(chordName, <<>>)

\* the guard of line 237 skipping an empty note list as well
SkipsChord_EmptyNotes(chord) ==
    \/ "name" \notin DOMAIN chord
    \/ chord.name = ""
    \/ IF "notes" \in DOMAIN chord THEN Len(chord.notes) = 0 ELSE TRUE

\* generateProgressionPhrases, line 237: !chord.name || !chord.notes
SkipsChord(chord) ==
    \/ "name" \notin DOMAIN chord
    \/ chord.name = ""
    \/ "notes" \notin DOMAIN chord

\* phraseOptions moving the position up with the index instead of cycling
phraseOptions_NoCycle(opts, index0, r) ==
    LET basePhraseLength == opts.phraseLength
        variation == RandomIndex(r, 3) - 1
        phraseLength == Max(4, Min(8, basePhraseLength + variation))
        positionVariation == index0 - 1
        preferredPosition == Max(3, Min(9, opts.preferredPosition + positionVariation))
    IN  Spread(opts, [phraseLength |-> phraseLength,
                      preferredPosition |-> preferredPosition])

\* phraseOptions without the clamp of the phrase length
phraseOptions_NoClamp(opts, index0, r) ==
    LET variation == RandomIndex(r, 3) - 1
        positionVariation == (index0 % 3) - 1
        preferredPosition == Max(3, Min(9, opts.preferredPosition + positionVariation))
    IN  Spread(opts, [phraseLength |-> opts.phraseLength + variation,
                      preferredPosition |-> preferredPosition])

\* generateProgressionPhrases, lines 240-252; r is the Math.random() outcome
phraseOptions(opts, index0, r) ==
    LET basePhraseLength == opts.phraseLength
        variation == RandomIndex(r, 3) - 1
        phraseLength == Max(4, Min(8, basePhraseLength + variation))
        positionVariation == (index0 % 3) - 1
        preferredPosition == Max(3, Min(9, opts.preferredPosition + positionVariation))
    IN  Spread(opts, [phraseLength |-> phraseLength,
                      preferredPosition |-> preferredPosition])

-----------------------------------------------------------------------------
(* Inputs                                                                  *)

standardTuning == <<"E", "B", "G", "D", "A", "E">>
dropDTuning == <<"E", "B", "G", "D", "A", "D">>
defaultTuning == <<"E", "A", "D", "G", "B", "E">>
unisonTuning == <<"E", "E", "E", "E", "E", "E">>
lowChromaticTuning == <<"A", "A#", "B", "C", "C#", "D">>
highChromaticTuning == <<"D#", "E", "F", "F#", "G", "G#">>
nearUnisonTuning == <<"B", "E", "E", "E", "E", "F">>
malformedTuning == <<"E", "B", "X", "D", "A", "E">>
shortTuning == <<"E", "B", "G">>

CanonicalTunings ==
    {standardTuning, dropDTuning, defaultTuning, unisonTuning,
     lowChromaticTuning, highChromaticTuning}

Tunings == CanonicalTunings \cup {malformedTuning}

IsCanonicalTuning(tuning) ==
    Len(tuning) = 6 /\ \A i \in 1..6 : tuning[i] \in CanonicalNotes

cMajorChord == <<"C", "E", "G">>
cMajorScale == <<"C", "D", "E", "F", "G", "A", "B">>

\* base phrase lengths: below and at the lower end of the clamp of line 242,
\* and above its upper end
BaseLengths == {3, 4, 9}

Frets == 0..LastFret

Idle ==
    /\ phraseOpts = NoValue
    /\ noteSequence = <<>>
    /\ tabNotes = <<>>
    /\ noteIndex = 0
    /\ index = 0
    /\ phrases = <<>>
    /\ searches = 0

-----------------------------------------------------------------------------
(* Calls of the pure methods                                               *)

GetNoteAtInputs ==
    [baseNote : CanonicalNotes \cup {"X"}, fret : 0..MaxFretArg]

FindNotePositionsInputs ==
    [note : CanonicalNotes, tuning : Tunings, minFret : Frets, maxFret : Frets]

ScorePositionInputs ==
    [position : [string : 0..5, fret : Frets], note : {"C", "D"},
     chordNotes : {cMajorChord, <<>>}, emphasizeChordTones : BOOLEAN,
     preferredPosition : Frets]

\* positions at both ends of the neck, inside it, and past the last fret
FilterPositions ==
    {[string |-> 0, fret |-> 0], [string |-> 1, fret |-> 5],
     [string |-> 3, fret |-> 7], [string |-> 5, fret |-> 12],
     [string |-> 2, fret |-> 14]}

FilterPositionsByRangeInputs ==
    [positions : SeqsUpTo(FilterPositions, MaxPositions),
     centerPosition : Frets, range : 0..MaxRange]

\* selectBestPosition: a note of the chord, one outside it and one between;
\* every preferred position and window width; tunings with many, few and
\* no positions in a window
SelectBestPositionInputs ==
    [note : {"C", "D", "F#"},
     tuning : {standardTuning, lowChromaticTuning, unisonTuning, nearUnisonTuning,
               malformedTuning},
     chordNotes : {cMajorChord, <<>>},
     options : [phraseLength : {6}, preferredPosition : Frets,
                emphasizeChordTones : BOOLEAN, positionRange : 0..MaxRange]]

InitPure ==
    /\ pc = "start"
    /\ out = NoValue
    /\ Idle
    /\ fretboard = NoValue
    /\ calls = 0
    /\ \/ op = "getNoteAt" /\ in \in GetNoteAtInputs
       \/ op = "findNotePositions" /\ in \in FindNotePositionsInputs
       \/ op = "scorePosition" /\ in \in ScorePositionInputs
       \/ op = "filterPositionsByRange" /\ in \in FilterPositionsByRangeInputs
       \/ op = "GuitarFretboard.getNoteAt" /\ in \in GetNoteAtInputs
       \/ op = "selectBestPosition" /\ in \in SelectBestPositionInputs

Return(value) ==
    /\ out' = value
    /\ pc' = "done"
    /\ UNCHANGED <<calls, fretboard, op, in, phraseOpts, noteSequence, tabNotes, noteIndex, index, phrases, searches>>

CallGetNoteAt ==
    /\ pc = "start" /\ op = "getNoteAt"
    /\ Return(getNoteAt(in.baseNote, in.fret))

CallFindNotePositions ==
    /\ pc = "start" /\ op = "findNotePositions"
    /\ Return(findNotePositions(in.note, in.tuning, in.minFret, in.maxFret))

CallScorePosition ==
    /\ pc = "start" /\ op = "scorePosition"
    /\ Return(scorePosition(in.position, in.note, in.chordNotes,
                            in.emphasizeChordTones, in.preferredPosition))

CallFilterPositionsByRange ==
    /\ pc = "start" /\ op = "filterPositionsByRange"
    /\ Return(filterPositionsByRange(in.positions, in.centerPosition, in.range))

CallFretboardGetNoteAt ==
    /\ pc = "start" /\ op = "GuitarFretboard.getNoteAt"
    /\ Return(fretboardGetNoteAt(in.baseNote, in.fret))

\* selectBestPosition, lines 150, 151 and 165: the draw among the choices
ReturnDrawn(choices) ==
    \E r \in Random : Return(drawPosition(choices, r))

CallSelectBestPosition ==
    /\ pc = "start" /\ op = "selectBestPosition"
    /\ ReturnDrawn(positionChoices(in.note, in.tuning, in.chordNotes, in.options))

NextPure ==
    \/ CallGetNoteAt
    \/ CallFindNotePositions
    \/ CallScorePosition
    \/ CallFilterPositionsByRange
    \/ CallFretboardGetNoteAt
    \/ CallSelectBestPosition

Spec == InitPure /\ [][NextPure]_vars

Returned(method) == op = method /\ pc = "done"

-----------------------------------------------------------------------------
(* generatePhrase and generateProgressionPhrases, statement by statement   *)

\* the chord of the generatePhrase call in progress
CurChord ==
    IF op = "generatePhrase"
    THEN [name |-> in.chordName, notes |-> in.chordNotes]
    ELSE in.chordProgression[index + 1]

ReturnPhrase(phrase) ==
    /\ out' = phrase
    /\ pc' = "done"
    /\ UNCHANGED <<index, phrases>>

PushPhrase(phrase) ==
    /\ phrases' = Append(phrases, phrase)
    /\ index' = index + 1
    /\ pc' = "progression"
    /\ UNCHANGED out

\* what the caller of generatePhrase does with the phrase it returns: the
\* outer call returns it, generateProgressionPhrases pushes it (line 256)
LeavePhrase(phrase) ==
    IF op = "generatePhrase" THEN ReturnPhrase(phrase) ELSE PushPhrase(phrase)

\* generatePhrase, lines 194-204: the options are merged, an empty working
\* scale returns the empty phrase at once, otherwise the note sequence is
\* built and the forEach of line 208 starts.
EnterGeneratePhrase(chordName, chordNotes, options) ==
    LET opts == Spread(defaultOptions, options)
    IN  IF Len(workingScale(chordNotes, in.scaleNotes)) = 0
        THEN /\ LeavePhrase(emptyPhrase(chordName))
             /\ UNCHANGED <<phraseOpts, noteSequence, tabNotes, noteIndex>>
        ELSE /\ phraseOpts' = opts
             /\ noteSequence' = createArpeggiatedSequence(chordNotes, opts.phraseLength)
             /\ tabNotes' = <<>>
             /\ noteIndex' = 0
             /\ pc' = "phrase"
             /\ UNCHANGED <<out, index, phrases>>

CallGeneratePhrase ==
    /\ pc = "start" /\ op = "generatePhrase"
    /\ EnterGeneratePhrase(in.chordName, in.chordNotes, in.options)
    /\ UNCHANGED <<calls, fretboard, op, in, searches>>

\* generatePhrase, lines 209-215: the position drawn from the choices is
\* pushed on tabNotes unless it is null
PushDrawn(choices) ==
    \E r \in Random :
        LET position == drawPosition(choices, r)
        IN  tabNotes' =
               IF position # Null
               THEN Append(tabNotes, [string |-> position.string, fret |-> position.fret])
               ELSE tabNotes

\* generatePhrase, lines 208-216: one turn of noteSequence.forEach, with the
\* body of selectBestPosition written out so that the draw is its last step
PlaceNote ==
    /\ pc = "phrase"
    /\ noteIndex < Len(noteSequence)
    /\ PushDrawn(positionChoices(noteSequence[noteIndex + 1], in.tuning,
                                 CurChord.notes, phraseOpts))
    /\ noteIndex' = noteIndex + 1
    /\ searches' = searches + 1
    /\ UNCHANGED <<calls, fretboard, op, in, pc, out, phraseOpts, noteSequence, index, phrases>>

\* generatePhrase, lines 218-221, and for a progression lines 254-256
FinishPhrase ==
    /\ pc = "phrase"
    /\ noteIndex = Len(noteSequence)
    /\ LeavePhrase(TabPhrase(CurChord.name, tabNotes))
    /\ UNCHANGED <<calls, fretboard, op, in, phraseOpts, noteSequence, tabNotes, noteIndex, searches>>

\* generateProgressionPhrases, lines 233-234
CallGenerateProgressionPhrases ==
    /\ pc = "start" /\ op = "generateProgressionPhrases"
    /\ phrases' = <<>>
    /\ index' = 0
    /\ pc' = "progression"
    /\ UNCHANGED <<calls, fretboard, op, in, out, phraseOpts, noteSequence, tabNotes, noteIndex, searches>>

\* generateProgressionPhrases, line 237: the early return of the callback
SkipChord ==
    /\ pc = "progression"
    /\ index < Len(in.chordProgression)
    /\ SkipsChord(in.chordProgression[index + 1])
    /\ index' = index + 1
    /\ UNCHANGED <<calls, fretboard, op, in, pc, out, phraseOpts, noteSequence, tabNotes, noteIndex,
                   phrases, searches>>

\* generateProgressionPhrases, lines 239-254: the options of the chord are
\* drawn and generatePhrase is entered
StartChord ==
    /\ pc = "progression"
    /\ index < Len(in.chordProgression)
    /\ ~SkipsChord(in.chordProgression[index + 1])
    /\ \E r \in Random :
         LET chord == in.chordProgression[index + 1]
             opts == Spread(defaultOptions, in.options)
         IN  EnterGeneratePhrase(chord.name, chord.notes,
                                 phraseOptions(opts, index, r))
    /\ UNCHANGED <<calls, fretboard, op, in, searches>>

\* generateProgressionPhrases, line 259
ReturnPhrases ==
    /\ pc = "progression"
    /\ index = Len(in.chordProgression)
    /\ Return(phrases)

\* Tunings generatePhrase is called with: two the tests use, one whose
\* strings leave some notes outside the five-fret window, one malformed.
GeneratorTunings == {standardTuning, dropDTuning, nearUnisonTuning, malformedTuning}

\* Tunings generateProgressionPhrases is called with
ProgressionTunings == {standardTuning, nearUnisonTuning}

PhraseChords ==
    {[name |-> "C Major", notes |-> cMajorChord],
     [name |-> "Empty", notes |-> <<>>],
     [name |-> "", notes |-> <<>>],
     [name |-> "C no3", notes |-> <<"C", "X">>]}

ScaleInputs == {<<>>, cMajorScale}

PhraseOptionInputs ==
    {<<>>}
    \cup [phraseLength : 0..MaxPhraseLength]
    \cup [phraseLength : 0..MaxPhraseLength, preferredPosition : {0, 12},
          positionRange : {0, 4}, emphasizeChordTones : {FALSE}]

cMinorChord == <<"C", "D#", "G">>

\* a chord with a note that the scale passed with it does not have
OutOfScaleInputs ==
    {[chordName |-> "C Minor", chordNotes |-> cMinorChord, scaleNotes |-> cMajorScale,
      tuning |-> standardTuning, options |-> o] :
        o \in [phraseLength : 0..MaxPhraseLength]}

\* a tuning of three strings
MalformedTuningPhraseInputs ==
    {[chordName |-> "C Major", chordNotes |-> cMajorChord, scaleNotes |-> cMajorScale,
      tuning |-> shortTuning, options |-> o] :
        o \in [phraseLength : 0..MaxPhraseLength]}

GeneratePhraseInputs ==
    {[chordName |-> c.name, chordNotes |-> c.notes, scaleNotes |-> s,
      tuning |-> t, options |-> o] :
        c \in PhraseChords, s \in ScaleInputs, t \in GeneratorTunings,
        o \in PhraseOptionInputs}
    \cup OutOfScaleInputs
    \cup MalformedTuningPhraseInputs

\* Progression entries: a chord with notes, the empty slot of the component,
\* a named chord whose note list is empty, a named chord without notes.
ProgressionEntries ==
    {[name |-> "C Major", notes |-> cMajorChord],
     [name |-> "", notes |-> <<>>],
     [name |-> "G Major", notes |-> <<>>],
     [name |-> "F Major"]}

ProgressionOptionInputs == [phraseLength : BaseLengths]

\* the notes a call can place at most: every chord with notes gets a phrase of
\* at most clamp(base + 1, 4, 8) notes
MostNotes(chordProgression, options) ==
    LET opts == Spread(defaultOptions, options)
        longest == Max(4, Min(8, opts.phraseLength + 1))
        sounding == {i \in 1..Len(chordProgression) :
                        /\ ~SkipsChord(chordProgression[i])
                        /\ Len(chordProgression[i].notes) > 0}
    IN  Cardinality(sounding) * longest

\* one chord on a tuning with a string that is no note, and on three strings
MalformedTuningProgressionInputs ==
    [chordProgression : {<<[name |-> "C Major", notes |-> cMajorChord]>>},
     scaleNotes : {cMajorScale}, tuning : {malformedTuning, shortTuning},
     options : {[phraseLength |-> 3]}]

\* the progression of the component with one chord chosen, at each of its
\* four slots, and the caller's preferred position at, inside and outside
\* both ends of 3..9
OneChordProgressions ==
    {[k \in 1..4 |-> IF k = slot THEN [name |-> "C Major", notes |-> cMajorChord]
                                 ELSE [name |-> "", notes |-> <<>>]] : slot \in 1..4}

PreferredPositionInputs ==
    [chordProgression : OneChordProgressions,
     scaleNotes : {cMajorScale}, tuning : {standardTuning},
     options : [phraseLength : {3}, preferredPosition : {0, 3, 5, 9, 12}]]

GenerateProgressionPhrasesInputs ==
    {i \in [chordProgression : SeqsUpTo(ProgressionEntries, MaxProgression),
            scaleNotes : ScaleInputs, tuning : ProgressionTunings,
            options : ProgressionOptionInputs] :
        MostNotes(i.chordProgression, i.options) <= MaxTotalNotes}
    \cup MalformedTuningProgressionInputs
    \cup PreferredPositionInputs

InitGen ==
    /\ pc = "start"
    /\ out = NoValue
    /\ Idle
    /\ fretboard = NoValue
    /\ calls = 0
    /\ \/ op = "generatePhrase" /\ in \in GeneratePhraseInputs
       \/ op = "generateProgressionPhrases" /\ in \in GenerateProgressionPhrasesInputs

NextGen ==
    \/ CallGeneratePhrase
    \/ PlaceNote
    \/ FinishPhrase
    \/ CallGenerateProgressionPhrases
    \/ SkipChord
    \/ StartChord
    \/ ReturnPhrases

SpecGen == InitGen /\ [][NextGen]_vars

-----------------------------------------------------------------------------
(* The GuitarFretboard component                                           *)
(* (src/src/app/components/GuitarFretboard.js).                            *)
(*                                                                         *)
(* TLC does not take strings apart or put them together, so a string the   *)
(* component parses (a formula label) is the sequence of its characters,   *)
(* with the en dash of the source written "-", and a string it builds with *)
(* a template (a chord or scale name) is the sequence of its words:        *)
(* "C Major" is <<"C", "Major">> and "" is <<>>.                           *)

totalFrets == 12

progressionFormulas ==
    <<
      \* line 31, "Folk: I - V - vi - IV"
      [label |-> <<"F", "o", "l", "k", ":", " ", "I", " ", "-", " ", "V", " ",
                   "-", " ", "v", "i", " ", "-", " ", "I", "V">>,
       pattern |-> <<0, 7, 9, 5>>],
      \* line 32, "Pop: vi - IV - I - V"
      [label |-> <<"P", "o", "p", ":", " ", "v", "i", " ", "-", " ", "I", "V",
                   " ", "-", " ", "I", " ", "-", " ", "V">>,
       pattern |-> <<9, 5, 0, 7>>],
      \* line 33, "Sad Pop: I - vi - iii - IV"
      [label |-> <<"S", "a", "d", " ", "P", "o", "p", ":", " ", "I", " ", "-",
                   " ", "v", "i", " ", "-", " ", "i", "i", "i", " ", "-", " ",
                   "I", "V">>,
       pattern |-> <<0, 9, 4, 5>>],
      \* line 34, "Indie: I - iii - vi - V"
      [label |-> <<"I", "n", "d", "i", "e", ":", " ", "I", " ", "-", " ", "i",
                   "i", "i", " ", "-", " ", "v", "i", " ", "-", " ", "V">>,
       pattern |-> <<0, 4, 9, 7>>],
      \* line 35, "Cinematic: i - VI - III - VII"
      [label |-> <<"C", "i", "n", "e", "m", "a", "t", "i", "c", ":", " ", "i",
                   " ", "-", " ", "V", "I", " ", "-", " ", "I", "I", "I", " ",
                   "-", " ", "V", "I", "I">>,
       pattern |-> <<0, -3, -8, -1>>],
      \* line 36, "Classic Rock: I - IV - V - IV"
      [label |-> <<"C", "l", "a", "s", "s", "i", "c", " ", "R", "o", "c", "k",
                   ":", " ", "I", " ", "-", " ", "I", "V", " ", "-", " ", "V",
                   " ", "-", " ", "I", "V">>,
       pattern |-> <<0, 5, 7, 5>>],
      \* line 37, "Melancholy Minor: i - VII - VI - iv"
      [label |-> <<"M", "e", "l", "a", "n", "c", "h", "o", "l", "y", " ", "M",
                   "i", "n", "o", "r", ":", " ", "i", " ", "-", " ", "V", "I",
                   "I", " ", "-", " ", "V", "I", " ", "-", " ", "i", "v">>,
       pattern |-> <<0, -1, -2, -5>>],
      \* line 38, "Dramatic Minor: i - v - VI - III"
      [label |-> <<"D", "r", "a", "m", "a", "t", "i", "c", " ", "M", "i", "n",
                   "o", "r", ":", " ", "i", " ", "-", " ", "v", " ", "-", " ",
                   "V", "I", " ", "-", " ", "I", "I", "I">>,
       pattern |-> <<0, -2, -4, -7>>]
    >>

\* String.prototype.split for a separator of one character
RECURSIVE split(_, _)
split(str, sep) ==
    IF \A k \in 1..Len(str) : str[k] # sep THEN <<str>>
    ELSE LET k == CHOOSE j \in 1..Len(str) :
                      str[j] = sep /\ \A h \in 1..(j - 1) : str[h] # sep
         IN  <<SubSeq(str, 1, k - 1)>> \o split(SubSeq(str, k + 1, Len(str)), sep)

\* String.prototype.trim
trim(str) ==
    LET inked == {k \in 1..Len(str) : str[k] # " "}
    IN  IF inked = {} THEN <<>>
        ELSE SubSeq(str, CHOOSE k \in inked : \A h \in inked : k <= h,
                         CHOOSE k \in inked : \A h \in inked : h <= k)

\* generateProgression, line 103:
\* /i/.test(label.split(":")[1]?.split("-")[i]?.trim()); a part that is
\* missing is undefined, which the test reads as the text "undefined"
isMinor(label, i) ==
    LET parts == split(label, ":")
    IN  IF Len(parts) < 2 THEN TRUE
        ELSE LET numerals == split(parts[2], "-")
             IN  IF i >= Len(numerals) THEN TRUE
                 ELSE \E k \in 1..Len(trim(numerals[i + 1])) :
                          trim(numerals[i + 1])[k] = "i"

\* allNotes[k]: undefined outside the array, printed "undefined" by a template
noteAtIndex(k) == IF k \in 0..(Len(allNotes) - 1) THEN allNotes[k + 1] ELSE Undefined

\* generateProgression, line 100; r is the Math.random() outcome
baseFretOf(r) == RandomIndex(r, totalFrets - 4) + 4

\* rootFret without the floor at fret 0
rootFret_NoFloor(baseFret, i) == baseFret - i * 2

\* generateProgression, line 105
rootFret(baseFret, i) == Max(baseFret - i * 2, 0)

\* generateProgression, lines 98-104: chordName of the entry at index i
chordNameAt(progressionKey, formulaIndex, i) ==
    LET formula == progressionFormulas[formulaIndex + 1].pattern
        rootIndex == indexOf(progressionKey)
        chordRootIndex == remainder(rootIndex + formula[i + 1] + 12, 12)
        minor == isMinor(progressionFormulas[formulaIndex + 1].label, i)
    IN  <<noteAtIndex(chordRootIndex), IF minor THEN "Minor" ELSE "Major">>

\* generateProgression, lines 98-104: the chord names of formula.map
chordNames(progressionKey, formulaIndex) ==
    [k \in 1..Len(progressionFormulas[formulaIndex + 1].pattern) |->
        chordNameAt(progressionKey, formulaIndex, k - 1)]

\* generateProgression, lines 101-107: the value passed to setChordProgression
progressionOf(names, baseFret) ==
    [k \in 1..Len(names) |-> [name |-> names[k], fret |-> rootFret(baseFret, k - 1)]]

\* generateChordsAndScales, lines 45-51: the chord qualities with the
\* intervals that follow the root
chordShapes ==
    <<[quality |-> "Major", intervals |-> <<4, 7>>],
      [quality |-> "Minor", intervals |-> <<3, 7>>],
      [quality |-> "Maj7", intervals |-> <<4, 7, 11>>],
      [quality |-> "7", intervals |-> <<4, 7, 10>>],
      [quality |-> "m7", intervals |-> <<3, 7, 10>>],
      [quality |-> "Sus4", intervals |-> <<5, 7>>],
      [quality |-> "Add9", intervals |-> <<4, 7, 2>>]>>

\* generateChordsAndScales, lines 52-56: the scale qualities with their steps
scaleShapes ==
    <<[quality |-> <<"Major">>, steps |-> <<0, 2, 4, 5, 7, 9, 11>>],
      [quality |-> <<"Minor">>, steps |-> <<0, 2, 3, 5, 7, 8, 10>>],
      [quality |-> <<"Pentatonic", "Major">>, steps |-> <<0, 2, 4, 7, 9>>],
      [quality |-> <<"Pentatonic", "Minor">>, steps |-> <<0, 3, 5, 7, 10>>],
      [quality |-> <<"Phrygian">>, steps |-> <<0, 1, 3, 5, 7, 8, 10>>]>>

\* the notes of a chord counted from the note after the root
chordNotesOf_FromNext(i, intervals) ==
    <<allNotes[((i + 1) % 12) + 1]>>
    \o [k \in 1..Len(intervals) |-> allNotes[((i + intervals[k]) % 12) + 1]]

\* lines 45-51: [root, allNotes[(i + a) % 12], ...] for the root at index i
chordNotesOf(i, intervals) ==
    <<allNotes[i + 1]>>
    \o [k \in 1..Len(intervals) |-> allNotes[((i + intervals[k]) % 12) + 1]]

\* lines 52-56: steps.map((x) => allNotes[(i + x) % 12])
scaleNotesOf(i, steps) ==
    [k \in 1..Len(steps) |-> allNotes[((i + steps[k]) % 12) + 1]]

\* generateChordsAndScales().chords: an object is a function of its keys
chords ==
    [name \in {<<allNotes[i], chordShapes[q].quality>> :
                   i \in 1..Len(allNotes), q \in 1..Len(chordShapes)} |->
        LET q == CHOOSE q \in 1..Len(chordShapes) : chordShapes[q].quality = name[2]
        IN  chordNotesOf(indexOf(name[1]), chordShapes[q].intervals)]

\* generateChordsAndScales().scales
scales ==
    [name \in {<<allNotes[i]>> \o scaleShapes[q].quality :
                   i \in 1..Len(allNotes), q \in 1..Len(scaleShapes)} |->
        LET q == CHOOSE q \in 1..Len(scaleShapes) : scaleShapes[q].quality = Tail(name)
        IN  scaleNotesOf(indexOf(name[1]), scaleShapes[q].steps)]

\* lines 68-79: the state of the component when it mounts
mountedState ==
    [progressionKey |-> "C",
     tuning |-> defaultTuning,
     chord |-> <<>>,
     scale |-> <<>>,
     voicingType |-> "",
     formulaIndex |-> 0,
     chordProgression |-> [k \in 1..4 |-> [name |-> <<>>, fret |-> 0]]]

InitFretboard ==
    /\ op = "GuitarFretboard"
    /\ in = NoValue
    /\ pc = "mounted"
    /\ out = NoValue
    /\ Idle
    /\ fretboard = mountedState
    /\ calls = 0

\* a state setter of useState was called from a control; it is no function of
\* the component, so op, in and out keep the last call of one
SetState(state) ==
    /\ fretboard' = state
    /\ UNCHANGED <<op, in, pc, out, phraseOpts, noteSequence, tabNotes, noteIndex, index,
                   phrases, searches>>

\* a function of the component has run: op is the function, in what it was
\* given (or read), out the value it computed
Handled(handler, given, computed, state) ==
    /\ op' = handler
    /\ in' = given
    /\ out' = computed
    /\ fretboard' = state
    /\ UNCHANGED <<pc, phraseOpts, noteSequence, tabNotes, noteIndex, index, phrases, searches>>

\* the key select, line 160: the options are the twelve notes
SetProgressionKey ==
    /\ pc = "mounted"
    /\ \E note \in CanonicalNotes :
         SetState([fretboard EXCEPT !.progressionKey = note])

\* the formula select, line 176: the options are the indexes of the table
SetFormulaIndex ==
    /\ pc = "mounted"
    /\ \E idx \in 0..(Len(progressionFormulas) - 1) :
         SetState([fretboard EXCEPT !.formulaIndex = idx])

\* generateProgression, lines 100-108, for the chord names of lines 98-104
SetGeneratedProgression(names) ==
    \E r \in Random :
        LET progression == progressionOf(names, baseFretOf(r))
        IN  Handled("generateProgression",
                    [progressionKey |-> fretboard.progressionKey,
                     formulaIndex |-> fretboard.formulaIndex],
                    progression,
                    [fretboard EXCEPT !.chordProgression = progression])

\* generateProgression, lines 97-109
GenerateProgression ==
    /\ pc = "mounted"
    /\ SetGeneratedProgression(chordNames(fretboard.progressionKey, fretboard.formulaIndex))

NextFretboard ==
    /\ \/ SetProgressionKey
       \/ SetFormulaIndex
       \/ GenerateProgression
    /\ UNCHANGED calls

SpecFretboard == InitFretboard /\ [][NextFretboard]_vars

-----------------------------------------------------------------------------
(* The controls of the component: tuning, chord, scale and the entries of  *)
(* the progression.  The text of the fret input is the sequence of its     *)
(* characters.                                                             *)

\* NaN, as a number no text of the fret input parses to
NaN == -1000000

digits == <<"0", "1", "2", "3", "4", "5", "6", "7", "8", "9">>

\* the number the first n characters of a run of digits write
RECURSIVE digitsValue(_, _)
digitsValue(str, n) ==
    IF n = 0 THEN 0
    ELSE 10 * digitsValue(str, n - 1)
         + (CHOOSE d \in 0..9 : digits[d + 1] = str[n])

\* parseInt(value), line 89: white space is skipped, a sign is read, then
\* digits up to the first character that is none; NaN without a digit
parseInt(value) ==
    LET str == trim(value)
        signed == Len(str) > 0 /\ str[1] \in {"-", "+"}
        body == IF signed THEN Tail(str) ELSE str
        n == Cardinality({k \in 1..Len(body) :
                             \A h \in 1..k : \E d \in 1..10 : digits[d] = body[h]})
    IN  IF n = 0 THEN NaN
        ELSE IF signed /\ str[1] = "-" THEN -digitsValue(body, n)
        ELSE digitsValue(body, n)

\* updateTuning pushing the note instead of writing it at the index
newTuning_Pushed(tuning, idx, value) == Append(tuning, value)

\* updateTuning, lines 82-83
newTuning(tuning, idx, value) == [tuning EXCEPT ![idx + 1] = value]

\* updateChordInProgression, lines 88-89
updated(chordProgression, idx, field, value) ==
    [chordProgression EXCEPT
        ![idx + 1] = [@ EXCEPT ![field] = IF field = "fret" THEN parseInt(value) ELSE value]]

\* the notes the tuning selects are set to
TuningChoices == {"D", "G#"}

\* the chord select: no chord, or a chord of the library
ChordChoices == {<<>>, <<"E", "Sus4">>}

\* the scale select
ScaleChoices == {<<>>, <<"A", "Pentatonic", "Minor">>}

\* the chord selects of the progression
EntryNameChoices == {<<>>, <<"G#", "m7">>}

\* texts of the fret input: cleared, a fret, a negative number, a fraction
EntryFretChoices == {<<>>, <<"1", "2">>, <<"-", "1">>, <<"2", ".", "5">>}

\* the chord select, line 142
SetChord ==
    /\ pc = "mounted"
    /\ \E name \in ChordChoices : SetState([fretboard EXCEPT !.chord = name])

\* the scale select, line 148
SetScale ==
    /\ pc = "mounted"
    /\ \E name \in ScaleChoices : SetState([fretboard EXCEPT !.scale = name])

\* updateTuning, lines 81-85, called from the select of a string (line 127)
UpdateTuning ==
    /\ pc = "mounted"
    /\ \E idx \in 0..(Len(fretboard.tuning) - 1), value \in TuningChoices :
         Handled("updateTuning", [index |-> idx, value |-> value],
                 newTuning(fretboard.tuning, idx, value),
                 [fretboard EXCEPT !.tuning = newTuning(fretboard.tuning, idx, value)])

\* resetTuning, lines 93-95
ResetTuning ==
    /\ pc = "mounted"
    /\ Handled("resetTuning", NoValue, defaultTuning,
               [fretboard EXCEPT !.tuning = defaultTuning])

\* updateChordInProgression, lines 87-91, called from the chord select
\* (line 189) or the fret input (line 201) of an entry
UpdateChordInProgression ==
    /\ pc = "mounted"
    /\ \E idx \in 0..(Len(fretboard.chordProgression) - 1), field \in {"name", "fret"} :
         \E value \in IF field = "name" THEN EntryNameChoices ELSE EntryFretChoices :
            Handled("updateChordInProgression",
                    [index |-> idx, field |-> field, value |-> value],
                    updated(fretboard.chordProgression, idx, field, value),
                    [fretboard EXCEPT
                        !.chordProgression =
                            updated(fretboard.chordProgression, idx, field, value)])

\* the calls of a session are counted and stop at MaxCalls
NextControls ==
    /\ calls < MaxCalls
    /\ calls' = calls + 1
    /\ \/ SetProgressionKey
       \/ SetFormulaIndex
       \/ SetChord
       \/ SetScale
       \/ GenerateProgression
       \/ UpdateTuning
       \/ ResetTuning
       \/ UpdateChordInProgression

SpecControls == InitFretboard /\ [][NextControls]_vars

-----------------------------------------------------------------------------
(* Claims about the pure methods                                           *)

Elements(seq) == {seq[i] : i \in 1..Len(seq)}

\* C1: for a tuning of six canonical notes, a canonical note n and a fret
\* range 0 <= minFret <= maxFret <= 12, findNotePositions returns exactly the
\* positions {string s, fret f} with s in 0..5, minFret <= f <= maxFret and
\* getNoteAt(tuning[s], f) = n: each returned position sounds n inside the
\* range, none that does is missing, and none is returned twice.
C1_FindNotePositionsExact ==
    (/\ Returned("findNotePositions")
     /\ IsCanonicalTuning(in.tuning)
     /\ in.note \in CanonicalNotes
     /\ in.minFret <= in.maxFret)
    => /\ Elements(out) =
            {pos \in [string : 0..5, fret : in.minFret..in.maxFret] :
                getNoteAt(in.tuning[pos.string + 1], pos.fret) = in.note}
       /\ Cardinality(Elements(out)) = Len(out)

\* a search over part of the neck that finds the note, and finds it less
\* often than the search over the whole neck would
C1_Witness ==
    /\ Returned("findNotePositions")
    /\ IsCanonicalTuning(in.tuning)
    /\ 0 < in.minFret /\ in.minFret < in.maxFret /\ in.maxFret < LastFret
    /\ Len(out) >= 2
    /\ Len(out) < Len(findNotePositions(in.note, in.tuning, 0, LastFret))

\* C8: for a canonical open-string note b and a fret f >= 0, getNoteAt(b, f)
\* is the canonical note whose index is (indexOf(b) + f) mod 12.
C8_GetNoteAtIsIndexSum ==
    (Returned("getNoteAt") /\ in.baseNote \in CanonicalNotes)
    => /\ out \in CanonicalNotes
       /\ indexOf(out) = (indexOf(in.baseNote) + in.fret) % 12

\* a call whose index sum runs past the end of the note table
C8_Witness ==
    /\ Returned("getNoteAt")
    /\ in.baseNote = "A" /\ in.fret = 14 /\ out = "B"

\* C9: octave periodicity: for a canonical note n and a fret f >= 0, the
\* note returned for fret f is the note getNoteAt gives twelve frets higher.
C9_OctavePeriodicity ==
    (Returned("getNoteAt") /\ in.baseNote \in CanonicalNotes)
    => out = getNoteAt(in.baseNote, in.fret + 12)

\* the open string against its octave, on a string whose octave wraps
C9_Witness ==
    /\ Returned("getNoteAt")
    /\ in.baseNote = "E" /\ in.fret = 0 /\ out = "E"
    /\ getNoteAt("E", 12) = "E"

\* C10: scorePosition returns the sum of five independent terms: +10 if
\* emphasizeChordTones and the note is a chord note; +max(0, 5 - |f - p|);
\* +3 if 1 <= s <= 4; -2 if f = 0; +2 if 3 <= f <= 9.  At the same position
\* a chord tone scores exactly 10 more than a non-chord tone when emphasis
\* is on, and the same when it is off.
C10_ScoreIsSumOfTerms ==
    Returned("scorePosition") =>
        LET s == in.position.string
            f == in.position.fret
            p == in.preferredPosition
            chordTerm == IF in.emphasizeChordTones /\ in.note \in Elements(in.chordNotes)
                         THEN 10 ELSE 0
            closeness == IF 5 - Abs(f - p) > 0 THEN 5 - Abs(f - p) ELSE 0
            innerString == IF s \in 1..4 THEN 3 ELSE 0
            openString == IF f = 0 THEN -2 ELSE 0
            comfort == IF f \in 3..9 THEN 2 ELSE 0
        IN  /\ out = chordTerm + closeness + innerString + openString + comfort
            /\ \A other \in {"C", "D"} :
                 (in.note \in Elements(in.chordNotes) /\ other \notin Elements(in.chordNotes))
                 => out - scorePosition(in.position, other, in.chordNotes,
                                        in.emphasizeChordTones, in.preferredPosition)
                    = (IF in.emphasizeChordTones THEN 10 ELSE 0)

\* an emphasised chord tone on an open inner string, away from the anchor
C10_Witness ==
    /\ Returned("scorePosition")
    /\ in.note = "C" /\ in.chordNotes = cMajorChord /\ in.emphasizeChordTones
    /\ in.position = [string |-> 2, fret |-> 0]
    /\ in.preferredPosition = 3
    /\ out = 13

\* C11 as stated: for every note, chordNotes, emphasis flag, string s and
\* preferredPosition p in 0..12, the position {s, fret p} scores at least as
\* much as the position {s, fret f} for every fret f in 0..12.
C11_PreferredFretScoresBest ==
    Returned("scorePosition")
    => scorePosition([string |-> in.position.string, fret |-> in.preferredPosition],
                     in.note, in.chordNotes, in.emphasizeChordTones,
                     in.preferredPosition) >= out

\* the preferred positions at which no other fret of the string scores more
C11_Peaks == {1} \cup (3..9) \cup {11, 12}

\* C11, amended: the position at the preferred fret scores at least as much
\* as the position at any other fret of the same string when the preferred
\* position is 1, 3..9, 11 or 12; for 0, 2 and 10 it does not: a fret of
\* 3..9 (and, for 0, any fretted note nearby) scores more.
C11_PreferredFretScoresBestAtPeaks ==
    Returned("scorePosition")
    => LET atPreferred ==
               scorePosition([string |-> in.position.string, fret |-> in.preferredPosition],
                             in.note, in.chordNotes, in.emphasizeChordTones,
                             in.preferredPosition)
       IN  /\ in.preferredPosition \in C11_Peaks => atPreferred >= out
           /\ in.preferredPosition \notin C11_Peaks
              => \E f \in Frets :
                   scorePosition([string |-> in.position.string, fret |-> f],
                                 in.note, in.chordNotes, in.emphasizeChordTones,
                                 in.preferredPosition) > atPreferred

\* preferred position 5 against a position four frets away, which scores less
C11_Witness ==
    /\ Returned("scorePosition")
    /\ in.preferredPosition = 5
    /\ in.position = [string |-> 2, fret |-> 9]
    /\ in.note = "C" /\ in.chordNotes = cMajorChord /\ in.emphasizeChordTones
    /\ out = 16

\* C12: filterPositionsByRange(positions, c, w) returns, in their original
\* order, exactly the positions whose fret lies in
\* [max(0, c - floor(w/2)), min(12, c + floor(w/2))], unaltered.
C12_FilterKeepsWindowInOrder ==
    Returned("filterPositionsByRange")
    => LET lo == IF in.centerPosition - (in.range \div 2) > 0
                 THEN in.centerPosition - (in.range \div 2) ELSE 0
           hi == IF in.centerPosition + (in.range \div 2) < 12
                 THEN in.centerPosition + (in.range \div 2) ELSE 12
           kept == {i \in 1..Len(in.positions) :
                       lo <= in.positions[i].fret /\ in.positions[i].fret <= hi}
           nth(k) == CHOOSE i \in kept : Cardinality({j \in kept : j <= i}) = k
       IN  /\ Len(out) = Cardinality(kept)
           /\ \A k \in 1..Len(out) : out[k] = in.positions[nth(k)]

\* three positions around centre 6 with width 3: the middle one is outside
\* the window of frets 5..7 and is dropped, the other two keep their order
C12_Witness ==
    /\ Returned("filterPositionsByRange")
    /\ in.centerPosition = 6 /\ in.range = 3
    /\ in.positions = <<[string |-> 3, fret |-> 7], [string |-> 5, fret |-> 12],
                        [string |-> 1, fret |-> 5]>>
    /\ out = <<[string |-> 3, fret |-> 7], [string |-> 1, fret |-> 5]>>

\* the failure C22 speaks of, as the outcome of a call
InvalidNoteError == "InvalidNoteError"

\* C22 as stated: getNoteAt called with an open-string note that is not one
\* of the 12 canonical names fails with InvalidNoteError for every fret, and
\* the failure is never turned into a note value.
C22_InvalidNoteRaises ==
    (/\ pc = "done"
     /\ op \in {"getNoteAt", "GuitarFretboard.getNoteAt"}
     /\ in.baseNote \notin CanonicalNotes)
    => out = InvalidNoteError

\* C22, amended: getNoteAt called with an open-string note that is not one of
\* the 12 canonical names raises no error.  The getNoteAt of TabGenerator
\* returns the empty string for every fret, never a note value; the getNoteAt
\* of the component has no check: it returns undefined at fret 0 and the note
\* allNotes[(fret - 1) mod 12] at every fret from 1 up.
C22_InvalidNoteRaisesNothing ==
    (/\ pc = "done"
     /\ op \in {"getNoteAt", "GuitarFretboard.getNoteAt"}
     /\ in.baseNote \notin CanonicalNotes)
    => /\ op = "getNoteAt"
          => out = "" /\ out \notin CanonicalNotes /\ out # InvalidNoteError
       /\ op = "GuitarFretboard.getNoteAt"
          => /\ out # InvalidNoteError
             /\ in.fret = 0 => out = Undefined
             /\ in.fret >= 1 => out = allNotes[((in.fret - 1) % 12) + 1]

\* the note X at the seventh fret: no note from TabGenerator
C22_Witness ==
    /\ Returned("getNoteAt")
    /\ in.baseNote = "X" /\ in.fret = 7
    /\ out = ""

\* C23: the getNoteAt of TabGenerator returns the empty string for every base
\* note that is not one of the 12 canonical names, at every fret; so a string
\* tuned to such a name yields no position for any canonical note in
\* findNotePositions.
C23_UnknownStringHasNoPositions ==
    /\ (Returned("getNoteAt") /\ in.baseNote \notin CanonicalNotes) => out = ""
    /\ (Returned("findNotePositions") /\ in.note \in CanonicalNotes)
       => \A k \in 1..Len(out) : in.tuning[out[k].string + 1] \in CanonicalNotes

\* G searched over the whole neck of the tuning whose third string is X: the
\* other five strings give their positions, the third gives none
C23_Witness ==
    /\ Returned("findNotePositions")
    /\ in.tuning = malformedTuning /\ in.note = "G"
    /\ in.minFret = 0 /\ in.maxFret = LastFret
    /\ Len(out) = 5
    /\ \A k \in 1..Len(out) : out[k].string # 2

\* the positions of the note searched on frets lo..hi of the tuning
C25_PositionsOn(lo, hi) ==
    {pos \in [string : 0..(Len(in.tuning) - 1), fret : lo..hi] :
        getNoteAt(in.tuning[pos.string + 1], pos.fret) = in.note}

\* the positions of the note in the window around the preferred position
C25_InWindow ==
    LET half == in.options.positionRange \div 2
        lo == IF in.options.preferredPosition - half > 0
              THEN in.options.preferredPosition - half ELSE 0
        hi == IF in.options.preferredPosition + half < 12
              THEN in.options.preferredPosition + half ELSE 12
    IN  C25_PositionsOn(lo, hi)

C25_Score(pos) ==
    scorePosition(pos, in.note, in.chordNotes, in.options.emphasizeChordTones,
                  in.options.preferredPosition)

\* the positions among candidates that score strictly more than pos
C25_Better(candidates, pos) ==
    {q \in candidates : C25_Score(q) > C25_Score(pos)}

\* C25: whenever a position of the note lies in the window
\* [max(0, p - floor(r/2)), min(12, p + floor(r/2))], the position
\* selectBestPosition returns lies in that window and is one of the three
\* highest-scoring positions in it: at most two positions in the window score
\* strictly more, whatever the random draw.
C25_PicksAmongTopThreeInWindow ==
    (Returned("selectBestPosition") /\ C25_InWindow # {})
    => LET pos == [string |-> out.string, fret |-> out.fret]
       IN  /\ pos \in C25_InWindow
           /\ Cardinality(C25_Better(C25_InWindow, pos)) <= 2

\* a window that holds more than three positions, and the third best returned
C25_Witness ==
    /\ Returned("selectBestPosition")
    /\ Cardinality(C25_InWindow) > 3
    /\ Cardinality(C25_Better(C25_InWindow, [string |-> out.string, fret |-> out.fret])) = 2

\* the call fell back: no position in the window, some position on the neck
C26_FellBack ==
    /\ Returned("selectBestPosition")
    /\ C25_InWindow = {}
    /\ C25_PositionsOn(0, LastFret) # {}

\* C26 as stated: when no position of the note lies in the window but the
\* note is on frets 0..12, selectBestPosition falls back to all positions and
\* still scores them: at most two positions score strictly more than the one
\* returned.
C26_FallbackPicksAmongTopThree ==
    C26_FellBack
    => Cardinality(C25_Better(C25_PositionsOn(0, LastFret),
                              [string |-> out.string, fret |-> out.fret])) <= 2

\* C26, amended: when no position of the note lies in the window but the note
\* is on frets 0..12, selectBestPosition falls back to all positions and
\* scores none: the position returned is any one of the positions of the
\* note on frets 0..12, as findNotePositions gave it, whatever its score.
C26_FallbackPicksAnyPosition ==
    C26_FellBack
    => /\ DOMAIN out = {"string", "fret"}
       /\ out \in C25_PositionsOn(0, LastFret)

\* a fallback that returned the position with the lowest score of all, with
\* more than three positions scoring more
C26_Witness ==
    /\ C26_FellBack
    /\ Cardinality(C25_Better(C25_PositionsOn(0, LastFret), out)) > 3
    /\ \A q \in C25_PositionsOn(0, LastFret) : C25_Score(q) >= C25_Score(out)

\* the frets at which string s (from 0) of the tuning searched has a
\* position in the result
C29_FretsOnString(s) == {out[k].fret : k \in {j \in 1..Len(out) : out[j].string = s}}

\* C29: for a tuning of six canonical notes and a canonical note n,
\* findNotePositions(n, tuning, 0, 12) holds for each string exactly one
\* position if the string is not tuned to n and exactly two, at frets 0 and
\* 12, if it is; so the result is never empty and has 6 + (number of strings
\* tuned to n) elements.
C29_OnePositionPerStringPlusOctave ==
    (/\ Returned("findNotePositions")
     /\ IsCanonicalTuning(in.tuning)
     /\ in.note \in CanonicalNotes
     /\ in.minFret = 0 /\ in.maxFret = 12)
    => /\ \A s \in 0..5 :
            /\ Cardinality({k \in 1..Len(out) : out[k].string = s})
                 = (IF in.tuning[s + 1] = in.note THEN 2 ELSE 1)
            /\ in.tuning[s + 1] = in.note => C29_FretsOnString(s) = {0, 12}
            /\ in.tuning[s + 1] # in.note => C29_FretsOnString(s) \cap {0, 12} = {}
       /\ Len(out) > 0
       /\ Len(out) = 6 + Cardinality({s \in 1..6 : in.tuning[s] = in.note})

\* E on the standard tuning: both E strings give the open string and its
\* octave, the other four one position each
C29_Witness ==
    /\ Returned("findNotePositions")
    /\ in.tuning = standardTuning /\ in.note = "E"
    /\ in.minFret = 0 /\ in.maxFret = 12
    /\ Len(out) = 8

-----------------------------------------------------------------------------
(* Claims about the GuitarFretboard component                              *)

\* the note n semitones above the note k
NoteAbove(k, n) == allNotes[((indexOf(k) + n) % 12) + 1]

\* the text of a formula label before the colon
TitleOf(idx) == split(progressionFormulas[idx + 1].label, ":")[1]

\* the Roman numerals of a formula label
NumeralsOf(idx) ==
    LET parts == split(split(progressionFormulas[idx + 1].label, ":")[2], "-")
    IN  [k \in 1..Len(parts) |-> trim(parts[k])]

\* a Roman numeral written in lower case
LowerCase(numeral) == \A k \in 1..Len(numeral) : numeral[k] \in {"i", "v"}

NamesOf(progression) == [k \in 1..Len(progression) |-> progression[k].name]

Generated == op = "generateProgression"

\* C13: the table of formulas holds Spanish Romantic (i - VII - VI - V,
\* offsets 0, 10, 8, 7), and generating with it from key k yields
\* k Minor, (k+10) Major, (k+8) Major, (k+7) Major.
C13_SpanishRomanticProgression ==
    fretboard # NoValue
    => \E idx \in 0..(Len(progressionFormulas) - 1) :
         /\ TitleOf(idx) = <<"S", "p", "a", "n", "i", "s", "h", " ", "R", "o", "m", "a", "n", "t", "i", "c">>
         /\ (Generated /\ in.formulaIndex = idx)
            => NamesOf(out) = <<<<in.progressionKey, "Minor">>,
                                <<NoteAbove(in.progressionKey, 10), "Major">>,
                                <<NoteAbove(in.progressionKey, 8), "Major">>,
                                <<NoteAbove(in.progressionKey, 7), "Major">>>>

\* C14: generating with Melancholy Minor (i - VII - VI - iv) from key k
\* yields k Minor, (k+10) Major, (k+8) Major, (k+5) Minor.
C14_MelancholyMinorProgression ==
    (Generated /\ TitleOf(in.formulaIndex) = <<"M", "e", "l", "a", "n", "c", "h", "o", "l", "y", " ", "M", "i", "n", "o", "r">>)
    => NamesOf(out) = <<<<in.progressionKey, "Minor">>,
                        <<NoteAbove(in.progressionKey, 10), "Major">>,
                        <<NoteAbove(in.progressionKey, 8), "Major">>,
                        <<NoteAbove(in.progressionKey, 5), "Minor">>>>

\* C15: for every key and every formula of the table generateProgression
\* yields four entries; the name of entry i is the note at
\* (indexOf(key) + offset_i) normalised into 0..11, followed by Minor if the
\* i-th Roman numeral of the label is in lower case and by Major otherwise;
\* every name is a key of the chord library.
C15_NamesFollowOffsetsAndNumerals ==
    Generated
    => /\ Len(out) = 4
       /\ \A k \in 1..4 :
            LET offset == progressionFormulas[in.formulaIndex + 1].pattern[k]
                numeral == NumeralsOf(in.formulaIndex)[k]
            IN  /\ out[k].name = <<NoteAbove(in.progressionKey, offset),
                                   IF LowerCase(numeral) THEN "Minor" ELSE "Major">>
                /\ out[k].name \in DOMAIN chords

\* the root frets max(b - 2 i, 0) for a base b
C16_Descent(b) == [k \in 1..4 |-> IF b - 2 * (k - 1) > 0 THEN b - 2 * (k - 1) ELSE 0]

C16_Frets == [k \in 1..Len(out) |-> out[k].fret]

\* C16 as stated: the four root frets of a generated progression are
\* max(b - 2 i, 0), i = 0..3, for one base b of 4..8.
C16_RootFretsDescendFromBaseUpTo8 ==
    Generated => \E b \in 4..8 : C16_Frets = C16_Descent(b)

\* C16, amended: the four root frets of a generated progression are
\* max(b - 2 i, 0), i = 0..3, for one base b of 4..11: the first fret is in
\* 4..11, the frets descend by 2 per entry and are floored at 0.
C16_RootFretsDescendFromBase ==
    Generated => \E b \in 4..11 : C16_Frets = C16_Descent(b)

\* the lowest base: the last entry would be at fret -2 and is floored
C16_Witness ==
    /\ Generated
    /\ C16_Frets = <<4, 2, 0, 0>>

\* C17: for every root and every chord quality and scale quality that
\* generateChordsAndScales builds, the note list registered under
\* '<root> <quality>' starts with the root.
C17_RootComesFirst ==
    fretboard # NoValue
    => /\ \A name \in DOMAIN chords : chords[name][1] = name[1]
       /\ \A name \in DOMAIN scales : scales[name][1] = name[1]

\* the mounted component with a chord and a scale whose other notes wrap
\* past the end of allNotes
C17_Witness ==
    /\ pc = "mounted"
    /\ chords[<<"G#", "Add9">>] = <<"G#", "C", "D#", "A#">>
    /\ scales[<<"G#", "Pentatonic", "Minor">>] = <<"G#", "B", "C#", "D#", "F#">>

\* the nine scale qualities of C18
C18_ScaleQualities ==
    {<<"Major">>, <<"Minor">>, <<"Pentatonic", "Major">>, <<"Pentatonic", "Minor">>,
     <<"Blues">>, <<"Harmonic", "Minor">>, <<"Melodic", "Minor">>, <<"Phrygian">>,
     <<"Phrygian", "Dominant">>}

\* C18: the library holds 12 x 7 = 84 chords and 12 x 9 = 108 scales: the
\* nine scale qualities for every root.
C18_LibraryIsComplete ==
    fretboard # NoValue
    => /\ Cardinality(DOMAIN chords) = 84
       /\ Cardinality(DOMAIN scales) = 108
       /\ \A root \in CanonicalNotes, quality \in C18_ScaleQualities :
            <<root>> \o quality \in DOMAIN scales

\* the tuning has six canonical notes, the progression four entries, each
\* with no name or the name of a chord of the library
C30_Shape ==
    fretboard # NoValue
    => /\ Len(fretboard.tuning) = 6
       /\ \A k \in 1..Len(fretboard.tuning) : fretboard.tuning[k] \in CanonicalNotes
       /\ Len(fretboard.chordProgression) = 4
       /\ \A k \in 1..Len(fretboard.chordProgression) :
            \/ fretboard.chordProgression[k].name = <<>>
            \/ fretboard.chordProgression[k].name \in DOMAIN chords

\* the step is a call of the handler: a setter leaves op and in as they were
C30_Calls(handler) == op' = handler /\ (op # op' \/ in # in')

\* what a call of updateTuning, updateChordInProgression or resetTuning
\* changes
C30_Step ==
    /\ C30_Calls("updateTuning")
       => /\ in'.index \in 0..5
          /\ fretboard' =
               [fretboard EXCEPT !.tuning = [@ EXCEPT ![in'.index + 1] = in'.value]]
    /\ C30_Calls("updateChordInProgression")
       => /\ in'.index \in 0..3
          /\ fretboard' =
               [fretboard EXCEPT
                   !.chordProgression[in'.index + 1][in'.field] =
                       fretboard'.chordProgression[in'.index + 1][in'.field]]
    /\ C30_Calls("resetTuning")
       => fretboard' = [fretboard EXCEPT !.tuning = <<"E", "A", "D", "G", "B", "E">>]

\* C30: in every state the component reaches by calls of updateTuning (a
\* string 0..5, a canonical note), resetTuning, updateChordInProgression (an
\* entry 0..3, its name or fret, a value of the control) and
\* generateProgression, the tuning has six entries, all canonical, and the
\* progression four entries, each with a name that is empty or a key of the
\* chord library; updateTuning changes only the string addressed,
\* updateChordInProgression only the addressed field of the addressed entry,
\* and resetTuning sets the tuning to E A D G B E and leaves chord, scale, key,
\* formula and progression as they were.
C30_ControlsKeepShape == []C30_Shape /\ [][C30_Step]_vars

\* the tuning reset after a string was retuned, with a chord chosen: the
\* third call of the session
C30_Witness ==
    /\ op = "resetTuning"
    /\ calls = 3
    /\ fretboard.tuning = defaultTuning
    /\ fretboard.chord = <<"E", "Sus4">>
    /\ \E k \in 1..4 : fretboard.chordProgression[k].name = <<"G#", "m7">>

-----------------------------------------------------------------------------
(* Claims about generatePhrase and generateProgressionPhrases              *)

\* the phrases a finished call has returned
ReturnedPhrases ==
    IF Returned("generatePhrase") THEN {out}
    ELSE IF Returned("generateProgressionPhrases") THEN Elements(out)
    ELSE {}

FretsOf(notes) == {notes[i].fret : i \in 1..Len(notes)}

\* highest fret used minus lowest fret used
FretSpan(notes) ==
    (CHOOSE hi \in FretsOf(notes) : \A f \in FretsOf(notes) : f <= hi)
    - (CHOOSE lo \in FretsOf(notes) : \A f \in FretsOf(notes) : lo <= f)

\* the entries of a progression that get a phrase
GetsPhrase(chord) ==
    "name" \in DOMAIN chord /\ chord.name # "" /\ "notes" \in DOMAIN chord

\* the returned phrase of entry i of the progression (i counts from 1)
PhraseOfEntry(i) ==
    out[Cardinality({j \in 1..i : GetsPhrase(in.chordProgression[j])})]

ChordNames(phraseSeq) == [i \in 1..Len(phraseSeq) |-> phraseSeq[i].chordName]

\* C2: every TabNote of every phrase generatePhrase or
\* generateProgressionPhrases returns has string in 0..5 and fret in 0..12,
\* for every tuning (malformed ones too), notes, options and random draws.
C2_TabNotesOnTheNeck ==
    \A phrase \in ReturnedPhrases :
        \A i \in 1..Len(phrase.notes) :
            /\ phrase.notes[i].string \in 0..5
            /\ phrase.notes[i].fret \in 0..12

\* a returned phrase that uses the last string and a note that was placed
\* outside the window, on the twelfth fret
C2_Witness ==
    \E phrase \in ReturnedPhrases :
        /\ \E i \in 1..Len(phrase.notes) : phrase.notes[i].string = 5
        /\ \E i \in 1..Len(phrase.notes) : phrase.notes[i].fret = 12

\* C3: generatePhrase with phraseLength L >= 0 and non-empty chordNotes never
\* returns more than L notes; it returns fewer only if a note of the
\* sequence has no position on frets 0..12 of the tuning; with a tuning of six
\* canonical notes and canonical chord notes it returns exactly L notes.
C3_PhraseLengthRespected ==
    (Returned("generatePhrase") /\ Len(in.chordNotes) > 0)
    => LET L == IF "phraseLength" \in DOMAIN in.options
                THEN in.options.phraseLength ELSE 6
           n == Len(in.chordNotes)
           unreachable ==
               {i \in 1..L :
                   \A pos \in [string : 0..5, fret : 0..12] :
                       getNoteAt(in.tuning[pos.string + 1], pos.fret)
                           # in.chordNotes[((i - 1) % n) + 1]}
       IN  /\ Len(out.notes) <= L
           /\ Len(out.notes) < L => unreachable # {}
           /\ (/\ IsCanonicalTuning(in.tuning)
               /\ \A i \in 1..n : in.chordNotes[i] \in CanonicalNotes)
              => Len(out.notes) = L

\* a phrase of three requested notes that lost the one note no string has
C3_Witness ==
    /\ Returned("generatePhrase")
    /\ in.chordNotes = <<"C", "X">>
    /\ in.options = [phraseLength |-> 3]
    /\ Len(out.notes) = 2

\* C4: generatePhrase(name, [], [], tuning, options) returns
\* {chordName: name, notes: []} for every name, tuning and options, straight
\* from its early return: no note is placed and no position is searched.
C4_EmptyInputEmptyPhrase ==
    (op = "generatePhrase" /\ Len(in.chordNotes) = 0 /\ Len(in.scaleNotes) = 0)
    => /\ pc \in {"start", "done"}
       /\ searches = 0
       /\ pc = "done" => out = [chordName |-> in.chordName, notes |-> <<>>]

\* the empty call on a malformed tuning with every option set
C4_Witness ==
    /\ Returned("generatePhrase")
    /\ Len(in.chordNotes) = 0 /\ Len(in.scaleNotes) = 0
    /\ in.tuning = malformedTuning
    /\ DOMAIN in.options = DOMAIN defaultOptions
    /\ out = [chordName |-> "Empty", notes |-> <<>>]

\* C5 as stated: the chord names of the output of generateProgressionPhrases
\* are the non-empty names of the progression entries, in order: one phrase
\* per entry with a non-empty name, none for an entry with an empty name.
C5_OnePhrasePerNamedEntry ==
    Returned("generateProgressionPhrases")
    => ChordNames(out) =
         ChordNames(SelectSeq([i \in 1..Len(in.chordProgression) |->
                                  [chordName |-> in.chordProgression[i].name]],
                              LAMBDA e : e.chordName # ""))

\* C5, amended: the chord names of the output are the names of the entries
\* that have a non-empty name and a notes array, in progression order; an
\* entry without a notes array gets no phrase even if it is named, and a
\* named entry with an empty notes array gets one.
C5_OnePhrasePerNamedEntryWithNotes ==
    Returned("generateProgressionPhrases")
    => LET kept == {i \in 1..Len(in.chordProgression) :
                       GetsPhrase(in.chordProgression[i])}
       IN  /\ Len(out) = Cardinality(kept)
           /\ \A i \in kept : PhraseOfEntry(i).chordName = in.chordProgression[i].name

\* a progression of a named chord without notes and a named chord with an
\* empty note list: one phrase, for the second
C5_Witness ==
    /\ Returned("generateProgressionPhrases")
    /\ in.chordProgression = <<[name |-> "F Major"], [name |-> "G Major", notes |-> <<>>]>>
    /\ ChordNames(out) = <<"G Major">>

\* C6: for a tuning of six canonical notes, the phrase of a progression entry
\* with a name and non-empty canonical notes has exactly clamp(base + v, 4, 8)
\* notes for some v in {-1, 0, 1}, base being the phraseLength passed in; so
\* it has between 4 and 8 notes.
C6_PhraseLengthVariesAroundBase ==
    (Returned("generateProgressionPhrases") /\ IsCanonicalTuning(in.tuning))
    => \A i \in 1..Len(in.chordProgression) :
         LET chord == in.chordProgression[i]
             base == IF "phraseLength" \in DOMAIN in.options
                     THEN in.options.phraseLength ELSE 6
             clamp(x) == IF x < 4 THEN 4 ELSE IF x > 8 THEN 8 ELSE x
         IN  (/\ GetsPhrase(chord)
              /\ Len(chord.notes) > 0
              /\ \A k \in 1..Len(chord.notes) : chord.notes[k] \in CanonicalNotes)
             => /\ Len(PhraseOfEntry(i).notes) \in {clamp(base + v) : v \in {-1, 0, 1}}
                /\ Len(PhraseOfEntry(i).notes) \in 4..8

\* base 4 with the variation +1: a phrase of five notes, inside the clamp
C6_Witness ==
    /\ Returned("generateProgressionPhrases")
    /\ IsCanonicalTuning(in.tuning)
    /\ in.options = [phraseLength |-> 4]
    /\ \E i \in 1..Len(in.chordProgression) :
         /\ GetsPhrase(in.chordProgression[i])
         /\ Len(PhraseOfEntry(i).notes) = 5

\* the options of a call that C7 is about: positionRange 4, preferredPosition 5
C7_Options ==
    LET opts == Spread(defaultOptions, in.options)
    IN  opts.positionRange = 4 /\ opts.preferredPosition = 5

\* C7 as stated: for any tuning of six canonical notes, positionRange 4 and
\* preferredPosition 5, every phrase generateProgressionPhrases returns has
\* (highest fret used) - (lowest fret used) <= 6.
C7_PhraseStaysInPosition ==
    (Returned("generateProgressionPhrases") /\ IsCanonicalTuning(in.tuning) /\ C7_Options)
    => \A phrase \in Elements(out) :
         Len(phrase.notes) > 0 => FretSpan(phrase.notes) <= 6

\* entry i of the progression has every one of its notes inside the window
\* of two frets either side of the preferred position of that entry
C7_NotesInWindow(i) ==
    LET chord == in.chordProgression[i]
        p == Max(3, Min(9, 5 + ((i - 1) % 3) - 1))
    IN  \A k \in 1..Len(chord.notes) :
          \E s \in 1..6, f \in Max(0, p - 2)..Min(12, p + 2) :
              getNoteAt(in.tuning[s], f) = chord.notes[k]

\* C7, amended: with positionRange 4 and preferredPosition 5, a phrase whose
\* chord notes all have a position inside the window of its entry spans at
\* most 6 frets, when it is returned and while it is being built; in
\* standard tuning E B G D A E that is every phrase.
C7_PhraseStaysInPositionWhenInWindow ==
    (op = "generateProgressionPhrases" /\ IsCanonicalTuning(in.tuning) /\ C7_Options)
    => /\ (pc = "phrase" /\ Len(tabNotes) > 0 /\ C7_NotesInWindow(index + 1))
          => FretSpan(tabNotes) <= 6
       /\ pc = "done"
          => \A i \in 1..Len(in.chordProgression) :
               (GetsPhrase(in.chordProgression[i]) /\ Len(PhraseOfEntry(i).notes) > 0)
               => /\ C7_NotesInWindow(i) => FretSpan(PhraseOfEntry(i).notes) <= 6
                  /\ in.tuning = standardTuning => C7_NotesInWindow(i)

\* a phrase in standard tuning that uses both ends of its window
C7_Witness ==
    /\ Returned("generateProgressionPhrases")
    /\ in.tuning = standardTuning
    /\ C7_Options
    /\ \E i \in 1..Len(in.chordProgression) :
         /\ GetsPhrase(in.chordProgression[i])
         /\ Len(PhraseOfEntry(i).notes) > 0
         /\ C7_NotesInWindow(i)
         /\ FretSpan(PhraseOfEntry(i).notes) = 3

\* C19: with chordNotes empty and scaleNotes non-empty generatePhrase builds
\* its sequence from scaleNotes: for a tuning of six canonical notes the
\* phrase has phraseLength notes and note i sounds scaleNotes[i mod
\* |scaleNotes|]; an empty phrase is returned only when both are empty.
C19_FallsBackToScaleNotes ==
    (/\ Returned("generatePhrase")
     /\ Len(in.chordNotes) = 0 /\ Len(in.scaleNotes) > 0
     /\ IsCanonicalTuning(in.tuning))
    => LET L == IF "phraseLength" \in DOMAIN in.options
                THEN in.options.phraseLength ELSE 6
       IN  /\ Len(out.notes) = L
           /\ \A i \in 1..Len(out.notes) :
                getNoteAt(in.tuning[out.notes[i].string + 1], out.notes[i].fret)
                    = in.scaleNotes[((i - 1) % Len(in.scaleNotes)) + 1]

\* C20: generateProgressionPhrases skips every entry whose chord name is empty
\* or whose note list is empty (or missing): the output holds one phrase for
\* each other entry, in order, and nothing for a skipped one.
C20_SkipsEntriesWithoutNameOrNotes ==
    Returned("generateProgressionPhrases")
    => LET kept == SelectSeq(in.chordProgression,
                             LAMBDA entry : /\ GetsPhrase(entry)
                                            /\ Len(entry.notes) > 0)
       IN  /\ Len(out) = Len(kept)
           /\ \A k \in 1..Len(kept) : out[k].chordName = kept[k].name

\* C21: whenever scaleNotes is non-empty, for every chordNotes and every tuning
\* of six canonical notes, the note sounded by each TabNote of the phrase
\* generatePhrase returns is a member of scaleNotes.
C21_PhraseNotesAreScaleNotes ==
    (/\ Returned("generatePhrase")
     /\ Len(in.scaleNotes) > 0
     /\ IsCanonicalTuning(in.tuning))
    => \A i \in 1..Len(out.notes) :
         getNoteAt(in.tuning[out.notes[i].string + 1], out.notes[i].fret)
             \in Elements(in.scaleNotes)

\* the calls C24 is about: a generator call on a tuning that has not six
\* strings or has a string that is no canonical note
C24_OnMalformedTuning ==
    /\ op \in {"generatePhrase", "generateProgressionPhrases"}
    /\ ~IsCanonicalTuning(in.tuning)

\* the note at index i of the sequence has a position on frets 0..12
C24_Reachable(chordNotes, i) ==
    \E s \in 1..Len(in.tuning), f \in 0..LastFret :
        getNoteAt(in.tuning[s], f) = chordNotes[((i - 1) % Len(chordNotes)) + 1]

\* C24 as stated: generatePhrase and generateProgressionPhrases reject a
\* malformed tuning before any position search is attempted, and return no
\* phrase for it: such a call makes no search and never returns.
C24_MalformedTuningRejected ==
    C24_OnMalformedTuning => searches = 0 /\ pc # "done"

\* C24, amended: generatePhrase and generateProgressionPhrases do not
\* validate the tuning and raise no error for a malformed one: the search
\* runs over the strings given, every TabNote placed is on a string of the
\* tuning that is a canonical note, and generatePhrase returns a phrase with
\* one TabNote for each note of its sequence that such a string can sound.
C24_MalformedTuningIsSearched ==
    C24_OnMalformedTuning
    => /\ \A k \in 1..Len(tabNotes) :
            /\ tabNotes[k].string + 1 \in 1..Len(in.tuning)
            /\ in.tuning[tabNotes[k].string + 1] \in CanonicalNotes
       /\ \A phrase \in ReturnedPhrases :
            \A k \in 1..Len(phrase.notes) :
                /\ phrase.notes[k].string + 1 \in 1..Len(in.tuning)
                /\ in.tuning[phrase.notes[k].string + 1] \in CanonicalNotes
       /\ (Returned("generatePhrase") /\ Len(in.chordNotes) > 0)
          => /\ out.chordName = in.chordName
             /\ Len(out.notes) =
                  Cardinality({i \in 1..Spread(defaultOptions, in.options).phraseLength :
                                  C24_Reachable(in.chordNotes, i)})

\* a phrase of three notes returned for the tuning E B X D A E after three
\* searches
C24_Witness ==
    /\ Returned("generatePhrase")
    /\ in.tuning = malformedTuning
    /\ in.chordNotes = cMajorChord
    /\ searches = 3
    /\ Len(out.notes) = 3

\* the note the TabNote at index i (from 1) of notes sounds
C27_Sounded(notes, i) ==
    getNoteAt(in.tuning[notes[i].string + 1], notes[i].fret)

C28_Clamp(x) == IF x < 3 THEN 3 ELSE IF x > 9 THEN 9 ELSE x

\* C28: the preferredPosition generateProgressionPhrases hands to
\* generatePhrase for the entry at index i of the progression is
\* clamp(base + (i mod 3) - 1, 3, 9), base being the caller's preferredPosition
\* (5 by default) and i counting the skipped entries too; it does not depend
\* on the random draw, it always lies in 3..9, and entry 3 gets the position
\* of entry 0.
C28_PositionCyclesWithIndex ==
    (op = "generateProgressionPhrases" /\ pc = "phrase")
    => LET base == IF "preferredPosition" \in DOMAIN in.options
                   THEN in.options.preferredPosition ELSE 5
       IN  /\ phraseOpts.preferredPosition = C28_Clamp(base + (index % 3) - 1)
           /\ phraseOpts.preferredPosition \in 3..9
           /\ index = 3 => phraseOpts.preferredPosition = C28_Clamp(base - 1)

\* the chord in the fourth slot behind three skipped ones, base 5: position 4
C28_Witness ==
    /\ op = "generateProgressionPhrases" /\ pc = "phrase"
    /\ index = 3
    /\ in.options.preferredPosition = 5
    /\ phraseOpts.preferredPosition = 4

====
